---- MODULE Spec2Model ----
(***************************************************************************)
(* State-machine model of google/cloud/storage/_opentelemetry_tracing.py:  *)
(* the module-level configuration (environment toggle, availability of the *)
(* tracing dependency, default attributes) and the create_span context     *)
(* manager, seen as the three steps every `with create_span(...)` takes:   *)
(* entering the scope (the generator runs up to its yield), the wrapped    *)
(* body, and leaving the scope (the generator is resumed or thrown into).  *)
(*                                                                         *)
(* Python values are tagged tuples, so that None, booleans, strings, dicts *)
(* and exceptions stay distinct: <<"NoneType">>, <<"bool", b>>,            *)
(* <<"str", s>>, <<"dict", f>>, <<"raise", class, id>>.  A dict is a       *)
(* function over Keys whose missing keys map to Absent.                    *)
(***************************************************************************)
EXTENDS Naturals, Sequences, FiniteSets, TLC

VARIABLES
    env,                  \* os.environ[DISABLE_GCS_PYTHON_CLIENT_OTEL_TRACES] at import
    disable_otel_traces,  \* module global, line 12
    HAS_OPENTELEMETRY,    \* module global, lines 17-31
    _default_attributes,  \* module global dict object, lines 33-38
    pc,                   \* per call site: "idle", "body", "exit", "done"
    gen,                  \* per call site: the yield the generator is suspended at
    args,                 \* per call site: the arguments as they were passed
    attributes,           \* per call site: the caller's attributes object, as it is now
    client,               \* per call site: the caller's client object, as it is now
    yielded,              \* per call site: what `with create_span(...) as x` bound
    span,                 \* per call site: the span of the current invocation
    bodyRuns,             \* per call site: times the wrapped body ran in this invocation
    outcome,              \* per call site: how the wrapped body ended
    observed,             \* per call site: what the caller of the scope observed
    calls,                \* create_span invocations so far
    opened,               \* spans started by the tracer so far
    ended                 \* span.end() calls so far

vars == <<env, disable_otel_traces, HAS_OPENTELEMETRY, _default_attributes, pc,
          gen, args, attributes, client, yielded, span, bodyRuns, outcome, observed,
          calls, opened, ended>>

----------------------------------------------------------------------------
(* Bounds *)

MaxCalls == 2          \* create_span invocations in one run

\* Two call sites, so that two invocations can be in flight at once
CallSites == {1, 2}

----------------------------------------------------------------------------
(* Python values *)

None == <<"NoneType">>
Absent == <<"absent">>
Unset == <<"unset">>
Nothing == <<"nothing">>
Str(s) == <<"str", s>>
Bool(b) == <<"bool", b>>
Dict(f) == <<"dict", f>>
Raise(cls, id) == <<"raise", cls, id>>
Return(v) == <<"return", v>>

IsRaise(o) == o[1] = "raise"

Keys == {"rpc.service", "rpc.system", "user_agent.original", "curr.stat",
         "url", "project", "custom"}

EmptyDict == [k \in Keys |-> Absent]

\* {k1: v1, ...} over the keys of the pairs in kv
DictOf(kv) ==
    [k \in Keys |-> IF \E p \in kv : p[1] = k
                    THEN (CHOOSE p \in kv : p[1] = k)[2]
                    ELSE Absent]

\* bool(v), as `if v:` and `not v` evaluate it
Truthy(v) ==
    CASE v[1] = "NoneType" -> FALSE
      [] v[1] = "bool"     -> v[2]
      [] v[1] = "str"      -> v[2] # ""
      [] v[1] = "dict"     -> \E k \in Keys : v[2][k] # Absent
      [] OTHER             -> TRUE

\* isinstance(exc, GoogleAPICallError)
IsGoogleAPICallError(o) == IsRaise(o) /\ o[2] = "GoogleAPICallError"

----------------------------------------------------------------------------
(* Module level: lines 9-38 *)

DEFAULT_DISABLE_OTEL_TRACES_VALUE == Bool(FALSE)

\* os.environ.get(key, default): the variable's string, or the default
EnvironGet(e, default) == IF e = Unset THEN default ELSE e

DefaultAttributes ==
    Dict(DictOf({<<"rpc.service", Str("CloudStorage")>>,
                 <<"rpc.system", Str("http")>>,
                 <<"user_agent.original", Str("gcloud-python/version")>>,
                 <<"curr.stat", Str("prototyping")>>}))

EnvValues == {Unset, Str(""), Str("true"), Str("false")}

----------------------------------------------------------------------------
(* Inputs of create_span *)

SpanNames == {"Storage.Client.getServiceAccountEmail"}

AttrInputs ==
    { None,
      Dict(EmptyDict),
      Dict(DictOf({<<"custom", None>>})),
      Dict(DictOf({<<"project", Str("px")>>, <<"rpc.system", Str("grpc")>>})),
      Dict(DictOf({<<"project", None>>, <<"user_agent.original", None>>,
                   <<"custom", Str("c")>>})) }

Client(project) ==
    <<"Client", [API_BASE_URL |-> Str("https://storage.googleapis.com"),
                 user_agent   |-> Str("gcloud-python/custom"),
                 project      |-> project]>>

ClientInputs == {None, Client(None), Client(Str("p1"))}

BodyOutcomes(t) ==
    { Return("result"),
      Raise("GoogleAPICallError", t),
      Raise("ValueError", t) }

----------------------------------------------------------------------------
(* dict operations on a heap of dict objects.  The heap of one call holds *)
(* the objects the call can reach, by name: the module's default          *)
(* attributes, the caller's attributes, and the dict the call allocates.  *)

\* Mutant of dict_copy: no copy is made, the caller goes on with d itself
dict_copy_alias(h, src, new) == [heap |-> h, ref |-> src]

\* d.copy(): allocates a new object with d's items and returns a reference to it
dict_copy(h, src, new) == [heap |-> [h EXCEPT ![new] = h[src]], ref |-> new]

\* d.update(other): in place, other's items win
dict_update(h, ref, other) ==
    [h EXCEPT ![ref] =
        Dict([k \in Keys |-> IF other[2][k] # Absent THEN other[2][k] ELSE h[ref][2][k]])]

----------------------------------------------------------------------------
(* _set_client_attributes, lines 75-82 *)

\* Mutant of _set_client_attributes: the project is left out
_set_client_attributes_no_project(cl) ==
    Dict([k \in Keys |->
        CASE k = "url" -> cl[2].API_BASE_URL
          [] k = "user_agent.original" -> cl[2].user_agent
          [] OTHER -> Absent])

_set_client_attributes(cl) ==
    Dict([k \in Keys |->
        CASE k = "url" -> cl[2].API_BASE_URL
          [] k = "user_agent.original" -> cl[2].user_agent
          [] k = "project" -> IF cl[2].project # None THEN cl[2].project ELSE Absent
          [] OTHER -> Absent])

----------------------------------------------------------------------------
(* _get_final_attributes, lines 65-72.  Returns the heap after the call   *)
(* and the dict it returns.                                               *)

\* Mutant of _get_final_attributes: the caller's attributes are applied
\* before the client's, so the client's win
_get_final_attributes_caller_first(h, cl) ==
    LET c  == dict_copy(h, "_default_attributes", "collected_attr")
        h1 == IF Truthy(c.heap["attributes"])
              THEN dict_update(c.heap, c.ref, c.heap["attributes"]) ELSE c.heap
        h2 == IF Truthy(cl)
              THEN dict_update(h1, c.ref, _set_client_attributes(cl)) ELSE h1
    IN  [heap   |-> h2,
         result |-> Dict([k \in Keys |-> IF h2[c.ref][2][k] # None
                                         THEN h2[c.ref][2][k] ELSE Absent])]

_get_final_attributes(h, cl) ==
    LET c  == dict_copy(h, "_default_attributes", "collected_attr")
        h1 == IF Truthy(cl)
              THEN dict_update(c.heap, c.ref, _set_client_attributes(cl)) ELSE c.heap
        h2 == IF Truthy(h1["attributes"])
              THEN dict_update(h1, c.ref, h1["attributes"]) ELSE h1
    IN  [heap   |-> h2,
         result |-> Dict([k \in Keys |-> IF h2[c.ref][2][k] # None
                                         THEN h2[c.ref][2][k] ELSE Absent])]

----------------------------------------------------------------------------
(* The tracer, as create_span uses it.  mainproto.py installs the SDK's    *)
(* TracerProvider (lines 15-19), so spans record what is set on them.      *)

\* The span slot of an invocation that has no span
NoSpan ==
    [name |-> "", kind |-> "NONE", attributes |-> Dict(EmptyDict),
     status |-> "UNSET", events |-> <<>>, ends |-> 0]

\* tracer.start_as_current_span(name=, kind=trace.SpanKind.CLIENT, attributes=): entering
start_as_current_span(name, attrs) ==
    [name |-> name, kind |-> "CLIENT", attributes |-> attrs,
     status |-> "UNSET", events |-> <<>>, ends |-> 0]

\* span.set_status(trace.Status(code))
set_status(sp, code) == [sp EXCEPT !.status = code]

\* span.record_exception(error)
record_exception(sp, exc) == [sp EXCEPT !.events = Append(@, exc)]

\* Leaving `with tracer.start_as_current_span(...)` with whatever left the
\* try statement inside it.  The call passes neither record_exception nor
\* set_status_on_exception nor end_on_exit, so the tracer's defaults apply:
\* an exception leaving the scope is recorded on the span and sets its
\* status to ERROR, and the span is ended on every exit.
\* Mutant of start_as_current_span_exit: the span is ended only when the
\* scope is left without an exception
start_as_current_span_exit_leaks(sp, out) ==
    IF IsRaise(out)
    THEN set_status(record_exception(sp, out), "ERROR")
    ELSE [sp EXCEPT !.ends = @ + 1]

start_as_current_span_exit(sp, out) ==
    LET s1 == IF IsRaise(out)
              THEN set_status(record_exception(sp, out), "ERROR")
              ELSE sp
    IN  [s1 EXCEPT !.ends = @ + 1]

----------------------------------------------------------------------------
(* create_span, lines 41-62 *)

\* Mutant of TracingOff: `and` for `or`
TracingOff_and == (~HAS_OPENTELEMETRY) /\ Truthy(disable_otel_traces)

\* line 45
TracingOff == (~HAS_OPENTELEMETRY) \/ Truthy(disable_otel_traces)

HeapRefs == {"_default_attributes", "attributes", "collected_attr"}

\* The objects a call can reach when it starts
HeapOf(attrs) ==
    [r \in HeapRefs |->
        CASE r = "_default_attributes" -> _default_attributes
          [] r = "attributes" -> attrs
          [] OTHER -> Nothing]

\* What the caller observes when the generator ends normally after an
\* exception was thrown into it: the exception is suppressed
Suppressed == <<"suppressed">>

\* Mutant of try_except: the handler lacks its `raise`
try_except_swallows(sp, o) ==
    IF IsGoogleAPICallError(o)
    THEN [span |-> record_exception(set_status(sp, "ERROR"), o), out |-> Suppressed]
    ELSE [span |-> sp, out |-> o]

\* Mutant of try_except: the handler raises an error of its own
try_except_wraps(sp, o) ==
    IF IsGoogleAPICallError(o)
    THEN [span |-> record_exception(set_status(sp, "ERROR"), o),
          out  |-> Raise("RuntimeError", o[3])]
    ELSE [span |-> sp, out |-> o]

\* lines 57-62: what the try statement does with the way the body ended.
\* span: the span afterwards; out: what leaves the try statement.
try_except(sp, o) ==
    IF IsGoogleAPICallError(o)
    THEN [span |-> record_exception(set_status(sp, "ERROR"), o), out |-> o]
    ELSE [span |-> sp, out |-> o]

\* `with create_span(name, attributes, client) as x:` is entered: the
\* generator runs from line 45 to its yield (line 48 or line 58).
create_span_enter(t, name, attrs, cl) ==
    /\ pc[t] \in {"idle", "done"}
    /\ calls < MaxCalls
    /\ calls' = calls + 1
    /\ args' = [args EXCEPT ![t] = [name |-> name, attributes |-> attrs, client |-> cl]]
    /\ client' = [client EXCEPT ![t] = cl]
    /\ bodyRuns' = [bodyRuns EXCEPT ![t] = 0]
    /\ outcome' = [outcome EXCEPT ![t] = Nothing]
    /\ UNCHANGED <<env, disable_otel_traces, HAS_OPENTELEMETRY, ended>>
    /\ IF TracingOff
       THEN /\ yielded' = [yielded EXCEPT ![t] = None]
            /\ gen' = [gen EXCEPT ![t] = "line48"]
            /\ pc' = [pc EXCEPT ![t] = "body"]
            /\ span' = [span EXCEPT ![t] = NoSpan]
            /\ attributes' = [attributes EXCEPT ![t] = attrs]
            /\ observed' = [observed EXCEPT ![t] = Nothing]
            /\ UNCHANGED <<_default_attributes, opened>>
       ELSE LET r == _get_final_attributes(HeapOf(attrs), cl) IN
            /\ _default_attributes' = r.heap["_default_attributes"]
            /\ attributes' = [attributes EXCEPT ![t] = r.heap["attributes"]]
            /\ yielded' = [yielded EXCEPT ![t] = <<"Span", t>>]
            /\ gen' = [gen EXCEPT ![t] = "line58"]
            /\ pc' = [pc EXCEPT ![t] = "body"]
            /\ span' = [span EXCEPT ![t] = start_as_current_span(name, r.result)]
            /\ observed' = [observed EXCEPT ![t] = Nothing]
            /\ opened' = opened + 1

\* The block under the with statement runs and ends as o
Body(t, o) ==
    /\ pc[t] = "body"
    /\ bodyRuns' = [bodyRuns EXCEPT ![t] = @ + 1]
    /\ outcome' = [outcome EXCEPT ![t] = o]
    /\ pc' = [pc EXCEPT ![t] = "exit"]
    /\ UNCHANGED <<env, disable_otel_traces, HAS_OPENTELEMETRY, _default_attributes,
                   gen, args, attributes, client, yielded, span, observed,
                   calls, opened, ended>>

\* The with statement is left: the generator is resumed (the body returned)
\* or thrown into (the body raised) at the yield it is suspended at.
create_span_exit(t) ==
    /\ pc[t] = "exit"
    /\ pc' = [pc EXCEPT ![t] = "done"]
    /\ gen' = [gen EXCEPT ![t] = "none"]
    /\ UNCHANGED <<env, disable_otel_traces, HAS_OPENTELEMETRY, _default_attributes,
                   args, attributes, client, yielded, bodyRuns, outcome, calls, opened>>
    /\ IF gen[t] = "line48"
       THEN \* lines 48-49: nothing catches, then return
            /\ observed' = [observed EXCEPT ![t] = outcome[t]]
            /\ UNCHANGED <<span, ended>>
       ELSE LET r  == try_except(span[t], outcome[t])
                s2 == start_as_current_span_exit(r.span, r.out)
            IN  /\ span' = [span EXCEPT ![t] = s2]
                /\ ended' = ended + (s2.ends - span[t].ends)
                /\ observed' = [observed EXCEPT ![t] = r.out]

----------------------------------------------------------------------------

Init ==
    /\ env \in EnvValues
    /\ disable_otel_traces = EnvironGet(env, DEFAULT_DISABLE_OTEL_TRACES_VALUE)
    /\ HAS_OPENTELEMETRY \in BOOLEAN
    /\ _default_attributes = DefaultAttributes
    /\ pc = [t \in CallSites |-> "idle"]
    /\ gen = [t \in CallSites |-> "none"]
    /\ args = [t \in CallSites |-> Nothing]
    /\ attributes = [t \in CallSites |-> Nothing]
    /\ client = [t \in CallSites |-> Nothing]
    /\ yielded = [t \in CallSites |-> Nothing]
    /\ span = [t \in CallSites |-> NoSpan]
    /\ bodyRuns = [t \in CallSites |-> 0]
    /\ outcome = [t \in CallSites |-> Nothing]
    /\ observed = [t \in CallSites |-> Nothing]
    /\ calls = 0
    /\ opened = 0
    /\ ended = 0

Next ==
    \/ \E t \in CallSites, name \in SpanNames, attrs \in AttrInputs, cl \in ClientInputs :
           create_span_enter(t, name, attrs, cl)
    \/ \E t \in CallSites : \E o \in BodyOutcomes(t) : Body(t, o)
    \/ \E t \in CallSites : create_span_exit(t)

Spec == Init /\ [][Next]_vars

----------------------------------------------------------------------------
(* Vocabulary of the properties *)

\* Tracing is on for the process: the dependency imported and the flag is falsy
TracingEnabled == HAS_OPENTELEMETRY /\ ~Truthy(disable_otel_traces)

\* The invocation of call site t runs with a span of its own
HasSpan(t) == span[t] # NoSpan

\* The caller-supplied mapping of an invocation ({} when none was passed)
CallerAttrs(a) == IF a = None THEN EmptyDict ELSE a[2]

\* The client-derived mapping of an invocation ({} when no client was passed)
ClientAttrs(cl) == IF cl = None THEN EmptyDict ELSE _set_client_attributes(cl)[2]

\* A overlaid by B overlaid by C at key k, None-valued results removed
Overlaid(A, B, C, k) ==
    LET v == IF C[k] # Absent THEN C[k] ELSE IF B[k] # Absent THEN B[k] ELSE A[k]
    IN  IF v = None THEN Absent ELSE v

\* The final attributes the specification prescribes for the arguments a
ExpectedAttributes(a) ==
    Dict([k \in Keys |->
            Overlaid(DefaultAttributes[2], ClientAttrs(a.client),
                     CallerAttrs(a.attributes), k)])

\* The values of the environment variable that say true, and that say false
EnvSaysTrue == env = Str("true")
EnvSaysFalse == env = Str("false")

----------------------------------------------------------------------------
(* C1: when tracing is disabled by the flag or the tracing dependency is   *)
(* unavailable, create_span yields None, opens no span, the wrapped body   *)
(* runs exactly once, and the caller observes the body's own return value  *)
(* or exception unchanged.                                                 *)
C1_DisabledIsNoOp ==
    \A t \in CallSites :
        (((~HAS_OPENTELEMETRY) \/ Truthy(disable_otel_traces)) /\ pc[t] # "idle") =>
            /\ yielded[t] = None
            /\ ~HasSpan(t)
            /\ pc[t] = "body" => bodyRuns[t] = 0
            /\ pc[t] = "exit" => bodyRuns[t] = 1
            /\ pc[t] = "done" => (bodyRuns[t] = 1 /\ observed[t] = outcome[t])

\* Disabled by the flag alone, the body raised and the caller saw that error
C1_Witness ==
    \E t \in CallSites :
        /\ HAS_OPENTELEMETRY /\ Truthy(disable_otel_traces)
        /\ pc[t] = "done" /\ yielded[t] = None /\ bodyRuns[t] = 1
        /\ IsRaise(outcome[t]) /\ observed[t] = outcome[t]

(* C2: the final attributes of a span are the defaults overlaid by the     *)
(* client-derived attributes overlaid by the caller-supplied attributes,   *)
(* with every key whose resulting value is None removed.                   *)
C2_FinalAttributesAreOverlay ==
    \A t \in CallSites :
        HasSpan(t) => span[t].attributes = ExpectedAttributes(args[t])

\* The client overrides a default, and the caller's None-valued key is dropped
C2_Witness ==
    \E t \in CallSites :
        /\ HasSpan(t)
        /\ args[t].client = Client(Str("p1"))
        /\ args[t].attributes = Dict(DictOf({<<"custom", None>>}))
        /\ span[t].attributes =
              Dict(DictOf({<<"rpc.service", Str("CloudStorage")>>,
                           <<"rpc.system", Str("http")>>,
                           <<"user_agent.original", Str("gcloud-python/custom")>>,
                           <<"curr.stat", Str("prototyping")>>,
                           <<"url", Str("https://storage.googleapis.com")>>,
                           <<"project", Str("p1")>>}))

(* C3: with tracing enabled, when the body raises a GoogleAPICallError the *)
(* span's status is error, the error is recorded on the span, and the      *)
(* caller observes that very error.                                        *)
C3_RemoteErrorMarkedAndReraised ==
    \A t \in CallSites :
        (pc[t] = "done" /\ HasSpan(t) /\ IsGoogleAPICallError(outcome[t])) =>
            /\ span[t].status = "ERROR"
            /\ \E i \in 1..Len(span[t].events) : span[t].events[i] = outcome[t]
            /\ observed[t] = outcome[t]

C3_Witness ==
    \E t \in CallSites :
        /\ pc[t] = "done" /\ HasSpan(t) /\ IsGoogleAPICallError(outcome[t])
        /\ span[t].status = "ERROR" /\ observed[t] = outcome[t]

(* C4 (as stated): with tracing enabled, when the body raises an error     *)
(* that is not a GoogleAPICallError, the span's status is not error when   *)
(* the span has closed, and the same error reaches the caller.             *)
C4_OtherErrorLeavesStatusUnset ==
    \A t \in CallSites :
        (pc[t] = "done" /\ HasSpan(t) /\ IsRaise(outcome[t])
            /\ ~IsGoogleAPICallError(outcome[t])) =>
            /\ span[t].status # "ERROR"
            /\ observed[t] = outcome[t]

(* C5: with tracing enabled every invocation opens exactly one span, the   *)
(* span stays open while the scope is, and it is ended exactly once when   *)
(* the scope is left, however the body ended; no span stays open once      *)
(* every scope has been left.                                              *)
C5_SpanClosedExactlyOnce ==
    /\ TracingEnabled => opened = calls
    /\ \A t \in CallSites :
          /\ (TracingEnabled /\ pc[t] # "idle") => HasSpan(t)
          /\ (HasSpan(t) /\ pc[t] \in {"body", "exit"}) => span[t].ends = 0
          /\ (HasSpan(t) /\ pc[t] = "done") => span[t].ends = 1
    /\ ended = opened - Cardinality({t \in CallSites : HasSpan(t) /\ pc[t] \in {"body", "exit"}})

\* Two invocations, both left by an error, both spans ended
C5_Witness ==
    /\ opened = 2 /\ ended = 2
    /\ \A t \in CallSites : pc[t] = "done" /\ HasSpan(t) /\ span[t].ends = 1
    /\ \E t \in CallSites : IsGoogleAPICallError(outcome[t])
    /\ \E t \in CallSites : IsRaise(outcome[t]) /\ ~IsGoogleAPICallError(outcome[t])

(* C6 (as stated): for every caller-supplied attributes mapping, a client  *)
(* without a project gives final attributes without a `project` key, and a *)
(* client with project "p1" gives final attributes with project = "p1".    *)
C6_ProjectFollowsClient ==
    \A t \in CallSites :
        (HasSpan(t) /\ args[t].client # None) =>
            /\ args[t].client[2].project = None =>
                  span[t].attributes[2]["project"] = Absent
            /\ args[t].client[2].project = Str("p1") =>
                  span[t].attributes[2]["project"] = Str("p1")

(* C6 (amended): the same, for every caller-supplied attributes mapping    *)
(* that has no `project` key of its own (or when none is supplied).        *)
C6_ProjectFollowsClientUnlessCallerSetsIt ==
    \A t \in CallSites :
        (HasSpan(t) /\ args[t].client # None
            /\ CallerAttrs(args[t].attributes)["project"] = Absent) =>
            /\ args[t].client[2].project = None =>
                  span[t].attributes[2]["project"] = Absent
            /\ args[t].client[2].project = Str("p1") =>
                  span[t].attributes[2]["project"] = Str("p1")

\* A client with project p1 and caller attributes without a project key
C6_Witness ==
    \E t \in CallSites :
        /\ HasSpan(t)
        /\ args[t].client = Client(Str("p1"))
        /\ Truthy(args[t].attributes)
        /\ CallerAttrs(args[t].attributes)["project"] = Absent
        /\ span[t].attributes[2]["project"] = Str("p1")

(* C7 (as stated): with the dependency available, create_span runs         *)
(* disabled (yields None) only when the environment variable carries a     *)
(* true value, and runs enabled when the variable is unset or carries a    *)
(* false value.                                                            *)
C7_ToggleIsBoolean ==
    \A t \in CallSites :
        (HAS_OPENTELEMETRY /\ pc[t] # "idle") =>
            /\ yielded[t] = None => EnvSaysTrue
            /\ (env = Unset \/ EnvSaysFalse) => yielded[t] # None

(* C8: in both modes, when the scope has been left the body has run        *)
(* exactly once and what the caller observes is what the body did: every   *)
(* error observed was raised by the body, and nothing is observed before   *)
(* the body has run.                                                       *)
C8_NoNewErrorKinds ==
    \A t \in CallSites :
        /\ pc[t] \in {"body", "exit"} => observed[t] = Nothing
        /\ pc[t] = "done" => (bodyRuns[t] = 1 /\ observed[t] = outcome[t])

\* A traced call with a client ended with the body's own error observed
C8_Witness ==
    \E t \in CallSites :
        /\ pc[t] = "done" /\ HasSpan(t) /\ args[t].client # None
        /\ IsGoogleAPICallError(outcome[t]) /\ observed[t] = outcome[t]

(* C9 (as stated): with invocations interleaved, each span carries the     *)
(* final attributes of its own invocation's arguments, and a span is       *)
(* marked error only if its own invocation's body raised a                 *)
(* GoogleAPICallError.                                                     *)
C9_InvocationsDoNotInterfere ==
    \A t \in CallSites :
        HasSpan(t) =>
            /\ span[t].attributes = ExpectedAttributes(args[t])
            /\ span[t].name = args[t].name
            /\ span[t].status = "ERROR" =>
                  (pc[t] = "done" /\ IsGoogleAPICallError(outcome[t]))

(* C10: after any sequence of create_span calls the default attributes and *)
(* the enablement flag are what they were at import, and the caller's      *)
(* attributes mapping and client are what was passed.                      *)
C10_InputsUnchanged ==
    /\ _default_attributes = DefaultAttributes
    /\ disable_otel_traces = EnvironGet(env, DEFAULT_DISABLE_OTEL_TRACES_VALUE)
    /\ \A t \in CallSites :
          pc[t] # "idle" =>
              /\ attributes[t] = args[t].attributes
              /\ client[t] = args[t].client

\* A second traced call with a client and attributes has completed
C10_Witness ==
    /\ calls = 2 /\ opened = 2
    /\ \E t \in CallSites :
          /\ pc[t] = "done" /\ HasSpan(t)
          /\ args[t].client # None /\ Truthy(args[t].attributes)

====
